---- MODULE Spec2Model ----
(***************************************************************************)
(* Model of docs/photonics/examples/effective_area.py: a width sweep that  *)
(* meshes a Si-NC slot waveguide, solves for its modes, keeps the first    *)
(* mode with tm_fraction > 0.5 and finally plots the accumulated values.   *)
(*                                                                         *)
(* Units.  Widths of w_list are integers (nm).  A width in micrometres     *)
(* (width * 1e-3) is the pair <<numerator, 1000>>.  tm_fraction is in      *)
(* hundredths.  n_eff and effective areas are in units of 1e-5; a value    *)
(* formatted with ".4f" is in units of 1e-4.  Refractive indices are in    *)
(* hundredths, permittivities in units of 1e-4.                            *)
(***************************************************************************)
EXTENDS Integers, Sequences, FiniteSets

VARIABLES
    w_list,     \* line 48: the list of widths (nm)
    neff_list,  \* line 49: accumulated effective indices
    aeff_list,  \* line 50: accumulated effective areas
    i,          \* position of the for loop of line 51 in w_list (1-based)
    width,      \* line 52: the loop variable after scaling to micrometres
    polygons,   \* lines 53-64: the geometry of the current iteration
    mesh,       \* line 72
    epsilon,    \* lines 75-82
    modes,      \* line 83
    k,          \* position of the for loop of line 85 in modes (1-based)
    console,    \* everything printed so far (lines 88, 89, 94)
    pc,         \* the statement about to run
    nominal     \* what the solver returns past the start of the sweep

vars == <<w_list, neff_list, aeff_list, i, width, polygons, mesh, epsilon,
          modes, k, console, pc, nominal>>

----------------------------------------------------------------------------
(* Bounds of the environment *)

\* the solver's answer is unconstrained for the first FreeHead widths
FreeHead == 2

----------------------------------------------------------------------------
(* Program constants *)

RangeStart == 50
RangeStop == 700
RangeStep == 10
ScaleDen == 1000
TmThreshold == 50
wavelength == 155
num_modes == 4
order == 1
n_silicon == 348
n_air == 100
n_nc == 160
n_silica == 145

\* range(start, stop, step) for step > 0: start, start+step, ... below stop
Range(start, stop, step) ==
    IF stop <= start THEN << >>
    ELSE [j \in 1..((stop - start + step - 1) \div step) |-> start + (j - 1) * step]

\* width * 1e-3
ScaleWidth(x) == <<x, ScaleDen>>

\* OrderedDict(core=, silicon=, silica=, air=) built from the scaled width
Polygons(w) == [names |-> <<"core", "silicon", "silica", "air">>, width |-> w]

\* mesh_from_OrderedDict(polygons, resolutions, default_resolution_max=1)
MeshOf(p) == [polygons |-> p, default_resolution_max |-> 1]

\* epsilon[basis0.get_dofs(elements=subdomain)] = n**2
EpsilonOf(m) ==
    [mesh |-> m,
     values |-> [core |-> n_nc * n_nc, silicon |-> n_silicon * n_silicon,
                 air |-> n_air * n_air, silica |-> n_silica * n_silica]]

\* the arguments of compute_modes
SolverInput(m, e) ==
    [mesh |-> m, epsilon |-> e, wavelength |-> wavelength,
     num_modes |-> num_modes, order |-> order]

----------------------------------------------------------------------------
(* The mode solver's answers *)

ModeKinds == {"TE", "HALF", "TM", "TM2"}
Fields == {"x", "y", "xy"}

TmOf == [TE |-> 40, HALF |-> 50, TM |-> 60, TM2 |-> 90]
NeffBase == [TE |-> 120003, HALF |-> 130001, TM |-> 140002, TM2 |-> 150005]
NeffImag == [TE |-> 0, HALF |-> 0, TM |-> 12, TM2 |-> 15]
AreaBase == [TE |-> 20001, HALF |-> 21002, TM |-> 22003, TM2 |-> 23005]
FieldOffset == [x |-> 100, y |-> 200, xy |-> 400]

\* a mode object: tm_fraction, complex n_eff <<re, im>>, and the effective
\* area per choice of field; the values depend on the width (nm) solved for
ModeOf(kind, w) ==
    [tm_fraction |-> TmOf[kind],
     n_eff |-> <<NeffBase[kind] + 100 * w, NeffImag[kind]>>,
     area |-> [f \in Fields |-> AreaBase[kind] + FieldOffset[f] + 100 * w]]

\* the solver returns at most num_modes modes
KindLists == UNION {[1..n -> ModeKinds] : n \in 0..num_modes}

ModesOf(kinds, w) == [j \in 1..Len(kinds) |-> ModeOf(kinds[j], w)]

\* what the solver finds past the start of the sweep: below the cutoff
\* width (nm) the waveguide is too narrow and the answer is `narrow`
NominalSet ==
    { [cutoff |-> 0,   narrow |-> << >>,           wide |-> <<"TE", "TM">>],
      [cutoff |-> 100, narrow |-> <<"TE", "HALF">>, wide |-> <<"TE", "TM">>],
      [cutoff |-> 80,  narrow |-> << >>,           wide |-> <<"TM">>],
      [cutoff |-> 0,   narrow |-> << >>,           wide |-> << >>] }

NominalKinds(nom, w) == IF w < nom.cutoff THEN nom.narrow ELSE nom.wide

\* the field used by calculate_effective_area() called without argument
DefaultField == "xy"

\* mode.calculate_effective_area(field=f)
calculate_effective_area(mode, f) == mode.area[f]

\* np.real(z)
Real(z) == z[1]

\* The float that stands for v (units of 1e-5) is the double nearest to
\* v / 100000: its 53-bit mantissa is v * 2^e / 100000 rounded to an integer,
\* half to even.  MantissaShift is e; MantissaResidue is v * 2^e modulo
\* 200000, which tells the remainder of that division and the parity of
\* its quotient.
Pow2 == <<1, 2, 4, 8, 16, 32, 64, 128, 256, 512, 1024, 2048, 4096, 8192,
          16384, 32768, 65536, 131072>>

\* the least n with v * 2^n >= 100000, for 0 < v < 100000
ShiftUp(v) ==
    CHOOSE n \in 0..17 :
        /\ Pow2[n + 1] >= (100000 + v - 1) \div v
        /\ \A l \in 0..(n - 1) : Pow2[l + 1] < (100000 + v - 1) \div v

\* the greatest n with v / 2^n >= 100000, for v >= 100000
ShiftDown(v) ==
    CHOOSE n \in 0..17 :
        /\ Pow2[n + 1] <= v \div 100000
        /\ \A l \in (n + 1)..17 : Pow2[l + 1] > v \div 100000

MantissaShift(v) ==
    IF v < 100000 THEN 52 + ShiftUp(v) ELSE 52 - ShiftDown(v)

\* x * 2^n modulo 200000
RECURSIVE DoubleMod(_, _)
DoubleMod(x, n) ==
    IF n < 10 THEN (x * Pow2[n + 1]) % 200000
    ELSE DoubleMod((x * 1024) % 200000, n - 10)

MantissaResidue(v) == DoubleMod(v % 200000, MantissaShift(v))

\* whether the double nearest to v / 100000 is below, at or above it
FloatSide(v) ==
    LET res == MantissaResidue(v)
        rem == res % 100000
        odd == res \div 100000 = 1
    IN  IF rem = 0 THEN "exact"
        ELSE IF rem < 50000 THEN "below"
        ELSE IF rem > 50000 THEN "above"
        ELSE IF odd THEN "above" ELSE "below"

\* format(v, ".4f") of a positive value: the binary value of the float is
\* rounded to four decimals, an exact tie to the even digit
Fmt4Pos(v) ==
    LET a == v \div 10
        b == v % 10
    IN  IF b < 5 THEN a
        ELSE IF b > 5 THEN a + 1
        ELSE IF FloatSide(v) = "above" THEN a + 1
        ELSE IF FloatSide(v) = "below" THEN a
        ELSE IF a % 2 = 0 THEN a ELSE a + 1

\* format(v, ".4f"): 1e-5 units to 1e-4 units
Fmt4(v) == IF v = 0 THEN 0 ELSE IF v < 0 THEN 0 - Fmt4Pos(0 - v) ELSE Fmt4Pos(v)

\* format(z, ".4f") of a complex value
Fmt4Complex(z) == <<Fmt4(z[1]), Fmt4(z[2])>>

----------------------------------------------------------------------------
(* The script *)

Init ==
    /\ w_list = Range(RangeStart, RangeStop, RangeStep)
    /\ neff_list = << >>
    /\ aeff_list = << >>
    /\ i = 1
    /\ width = <<0, 1>>
    /\ polygons = Polygons(<<0, 1>>)
    /\ mesh = MeshOf(Polygons(<<0, 1>>))
    /\ epsilon = EpsilonOf(MeshOf(Polygons(<<0, 1>>)))
    /\ modes = << >>
    /\ k = 1
    /\ console = << >>
    /\ pc = "geometry"
    /\ nominal \in NominalSet

\* lines 52-70
Geometry ==
    /\ pc = "geometry"
    /\ width' = ScaleWidth(w_list[i])
    /\ polygons' = Polygons(ScaleWidth(w_list[i]))
    /\ pc' = "mesh"
    /\ UNCHANGED <<w_list, neff_list, aeff_list, i, mesh, epsilon, modes, k,
                   console, nominal>>

\* line 72
BuildMesh ==
    /\ pc = "mesh"
    /\ mesh' = MeshOf(polygons)
    /\ pc' = "eps"
    /\ UNCHANGED <<w_list, neff_list, aeff_list, i, width, polygons, epsilon,
                   modes, k, console, nominal>>

\* lines 74-82
AssignEpsilon ==
    /\ pc = "eps"
    /\ epsilon' = EpsilonOf(mesh)
    /\ pc' = "solve"
    /\ UNCHANGED <<w_list, neff_list, aeff_list, i, width, polygons, mesh,
                   modes, k, console, nominal>>

\* the widths at the start of the sweep, where the answer is unconstrained
FreeWidths == {w_list[j] : j \in {n \in 1..Len(w_list) : n <= FreeHead}}

\* the answers the solver may give to an input it has not seen
SolverAnswers(input) ==
    LET w == input.mesh.polygons.width[1]
    IN  IF w \in FreeWidths
        THEN {ModesOf(kinds, w) : kinds \in KindLists}
        ELSE {ModesOf(NominalKinds(nominal, w), w)}

\* line 83
ComputeModes ==
    /\ pc = "solve"
    /\ modes' \in SolverAnswers(SolverInput(mesh, epsilon))
    /\ k' = 1
    /\ pc' = "filter"
    /\ UNCHANGED <<w_list, neff_list, aeff_list, i, width, polygons, mesh,
                   epsilon, console, nominal>>

\* variant of Qualifies: the threshold itself is accepted
QualifiesAtThreshold(mode) == mode.tm_fraction >= TmThreshold

\* line 86
Qualifies(mode) == mode.tm_fraction > TmThreshold

\* variant of NextIteration: the loop consumes w_list, taking its head
NextIterationPop ==
    /\ w_list' = Tail(w_list)
    /\ i' = i
    /\ pc' = IF Len(w_list) > 1 THEN "geometry" ELSE "load"

\* the for loop of line 51 moves on, or is exhausted
NextIteration ==
    /\ w_list' = w_list
    /\ IF i < Len(w_list)
       THEN /\ i' = i + 1
            /\ pc' = "geometry"
       ELSE /\ i' = i
            /\ pc' = "load"

\* lines 85-86: the mode under the scan does not qualify
Reject ==
    /\ pc = "filter"
    /\ k <= Len(modes)
    /\ ~Qualifies(modes[k])
    /\ k' = k + 1
    /\ UNCHANGED <<w_list, neff_list, aeff_list, i, width, polygons, mesh,
                   epsilon, modes, console, pc, nominal>>

\* variant of Record: the break comes before the second append
RecordWithoutArea ==
    /\ pc = "filter"
    /\ k <= Len(modes)
    /\ Qualifies(modes[k])
    /\ console' = console \o
          << [kind |-> "neff", val |-> Fmt4Complex(modes[k].n_eff)],
             [kind |-> "aeff",
              val |-> <<Fmt4(calculate_effective_area(modes[k], "y")), 0>>] >>
    /\ neff_list' = Append(neff_list, Real(modes[k].n_eff))
    /\ NextIteration
    /\ UNCHANGED <<aeff_list, width, polygons, mesh, epsilon, modes, k,
                   nominal>>

\* the position in ms of a mode with the largest tm_fraction
BestIndex(ms) ==
    CHOOSE j \in 1..Len(ms) :
        \A l \in 1..Len(ms) : ms[l].tm_fraction <= ms[j].tm_fraction

\* variant of Record: the mode with the largest tm_fraction is recorded
RecordBest ==
    /\ pc = "filter"
    /\ k <= Len(modes)
    /\ Qualifies(modes[k])
    /\ LET m == modes[BestIndex(modes)]
       IN  /\ console' = console \o
                << [kind |-> "neff", val |-> Fmt4Complex(m.n_eff)],
                   [kind |-> "aeff",
                    val |-> <<Fmt4(calculate_effective_area(m, "y")), 0>>] >>
           /\ neff_list' = Append(neff_list, Real(m.n_eff))
           /\ aeff_list' = Append(aeff_list,
                                  calculate_effective_area(m, DefaultField))
    /\ NextIteration
    /\ UNCHANGED <<width, polygons, mesh, epsilon, modes, k, nominal>>

\* lines 86-92: print, append to both lists, break
Record ==
    /\ pc = "filter"
    /\ k <= Len(modes)
    /\ Qualifies(modes[k])
    /\ console' = console \o
          << [kind |-> "neff", val |-> Fmt4Complex(modes[k].n_eff)],
             [kind |-> "aeff",
              val |-> <<Fmt4(calculate_effective_area(modes[k], "y")), 0>>] >>
    /\ neff_list' = Append(neff_list, Real(modes[k].n_eff))
    /\ aeff_list' = Append(aeff_list,
                           calculate_effective_area(modes[k], DefaultField))
    /\ NextIteration
    /\ UNCHANGED <<width, polygons, mesh, epsilon, modes, k, nominal>>

\* variant of Skip: a width without a TM mode is an error
SkipRaises ==
    /\ pc = "filter"
    /\ k > Len(modes)
    /\ pc' = "error"
    /\ UNCHANGED <<w_list, neff_list, aeff_list, i, width, polygons, mesh,
                   epsilon, modes, k, console, nominal>>

\* lines 93-94: the else branch of the for loop
Skip ==
    /\ pc = "filter"
    /\ k > Len(modes)
    /\ console' = Append(console, [kind |-> "notice", val |-> width])
    /\ NextIteration
    /\ UNCHANGED <<neff_list, aeff_list, width, polygons, mesh,
                   epsilon, modes, k, nominal>>

\* lines 97-104
LoadReference ==
    /\ pc = "load"
    /\ pc' = "plot"
    /\ UNCHANGED <<w_list, neff_list, aeff_list, i, width, polygons, mesh,
                   epsilon, modes, k, console, nominal>>

\* ax.plot(x, y) raises ValueError unless x and y have the same length
PlotAccepts(x, y) == Len(x) = Len(y)

\* lines 106-123
Plot ==
    /\ pc = "plot"
    /\ pc' = IF PlotAccepts(w_list, aeff_list) /\ PlotAccepts(w_list, neff_list)
             THEN "done" ELSE "error"
    /\ UNCHANGED <<w_list, neff_list, aeff_list, i, width, polygons, mesh,
                   epsilon, modes, k, console, nominal>>

Next ==
    \/ Geometry
    \/ BuildMesh
    \/ AssignEpsilon
    \/ ComputeModes
    \/ Reject
    \/ Record
    \/ Skip
    \/ LoadReference
    \/ Plot

Spec == Init /\ [][Next]_vars

----------------------------------------------------------------------------
(* Vocabulary of the properties *)

AfterSweep == pc \in {"load", "plot", "done", "error"}

InSweep == pc \in {"geometry", "mesh", "eps", "solve", "filter"}

\* the number of iterations of the sweep that have finished: the loop index
\* counts the iteration under way, and stays on the last one afterwards
Completed == IF InSweep THEN i - 1 ELSE i

AboveHalf(m) == m.tm_fraction > TmThreshold

\* position of the first mode above the threshold, 0 when there is none
FirstTM(ms) ==
    IF \E j \in 1..Len(ms) : AboveHalf(ms[j])
    THEN CHOOSE j \in 1..Len(ms) :
             /\ AboveHalf(ms[j])
             /\ \A l \in 1..(j - 1) : ~AboveHalf(ms[l])
    ELSE 0

Areas(m) == {m.area[f] : f \in Fields}

\* the modes the solver can return for the width w (nm); the values of a
\* mode tell its kind and the width it was computed for
ModesFor(w) == {ModeOf(kind, w) : kind \in ModeKinds}

IsNotice(line) == line.kind = "notice"
IsNeffLine(line) == line.kind = "neff"
IsAeffLine(line) == line.kind = "aeff"

Notices ==
    LET sel == SelectSeq(console, IsNotice)
    IN  [j \in 1..Len(sel) |-> sel[j].val]
PrintedNeff ==
    LET sel == SelectSeq(console, IsNeffLine)
    IN  [j \in 1..Len(sel) |-> sel[j].val]
PrintedAeff ==
    LET sel == SelectSeq(console, IsAeffLine)
    IN  [j \in 1..Len(sel) |-> sel[j].val[1]]

\* a step that changes the length of a result list
Appends ==
    \/ Len(neff_list') # Len(neff_list)
    \/ Len(aeff_list') # Len(aeff_list)

\* the else branch of the scan is about to run
ScanExhausted == pc = "filter" /\ k > Len(modes)

----------------------------------------------------------------------------
(* Properties *)

\* C1: the two result lists have the same length in every state, and every
\* finished iteration has either appended one value to each list or printed
\* a notice and appended to neither.
C1_EqualLengths ==
    /\ Len(neff_list) = Len(aeff_list)
    /\ Len(neff_list) <= Completed
    /\ Len(neff_list) + Len(Notices) = Completed

\* three widths are done: one was recorded, one skipped, and the solver
\* returned an empty list for the third, which was skipped too
C1_Witness ==
    /\ pc = "geometry"
    /\ i = 4
    /\ modes = << >>
    /\ Len(neff_list) = 1
    /\ Len(aeff_list) = 1
    /\ Len(Notices) = 2

\* C2: a step that appends to a result list is a step of the scan; it
\* appends to each list one value of the first mode, in the order returned,
\* whose tm_fraction exceeds 0.5, and ends the scan without looking at the
\* modes after it; the scan never moves past a qualifying mode.
C2_FirstMatch ==
    /\ [](pc = "filter" =>
            \A j \in 1..(k - 1) : j <= Len(modes) => ~AboveHalf(modes[j]))
    /\ [][Appends =>
            /\ pc = "filter"
            /\ FirstTM(modes) # 0
            /\ k = FirstTM(modes)
            /\ neff_list' = Append(neff_list, modes[FirstTM(modes)].n_eff[1])
            /\ \E a \in Areas(modes[FirstTM(modes)]) :
                   aeff_list' = Append(aeff_list, a)
            /\ k' = k
            /\ modes' = modes
            /\ pc' # "filter"]_vars
    /\ [][(pc = "filter" /\ k = FirstTM(modes)) => Appends]_vars

\* a width was recorded whose first qualifying mode is followed by a mode
\* with a larger tm_fraction: the entry is that of the first
C2_Witness ==
    /\ pc = "geometry"
    /\ Len(neff_list) > 0
    /\ FirstTM(modes) # 0
    /\ \E l \in (FirstTM(modes) + 1)..Len(modes) :
           modes[l].tm_fraction > modes[FirstTM(modes)].tm_fraction
    /\ neff_list[Len(neff_list)] = modes[FirstTM(modes)].n_eff[1]
    /\ aeff_list[Len(aeff_list)] \in Areas(modes[FirstTM(modes)])

\* the values of the modes strictly above the threshold that the solver can
\* return for the first n widths
StrictModes(n) ==
    UNION {{m \in ModesFor(w_list[j]) : m.tm_fraction > TmThreshold} :
           j \in 1..n}

\* C3: every recorded entry is a value of a mode whose tm_fraction is
\* strictly above 0.5; a step appends only for such a mode, and a scan of
\* modes that are all at or below 0.5 appends nothing.
C3_StrictThreshold ==
    /\ []({neff_list[e] : e \in 1..Len(neff_list)} \subseteq
             {m.n_eff[1] : m \in StrictModes(Completed)})
    /\ []({aeff_list[e] : e \in 1..Len(aeff_list)} \subseteq
             UNION {Areas(m) : m \in StrictModes(Completed)})
    /\ [][Appends =>
            /\ k \in 1..Len(modes)
            /\ modes[k].tm_fraction > TmThreshold]_vars
    /\ [][(pc = "filter" /\
           \A j \in 1..Len(modes) : modes[j].tm_fraction <= TmThreshold)
             => ~Appends]_vars

\* the first width was skipped; for the second the solver returned a mode
\* at exactly 0.5 and then a qualifying one, which was recorded
C3_Witness ==
    /\ pc = "geometry"
    /\ i = 3
    /\ Len(Notices) = 1
    /\ Len(neff_list) = 1
    /\ Len(modes) >= 2
    /\ modes[1].tm_fraction = TmThreshold
    /\ FirstTM(modes) = 2
    /\ neff_list[1] = modes[2].n_eff[1]

\* C4: the step that finds no qualifying mode prints one notice for the
\* current width, leaves both lists alone, raises nothing and moves to the
\* next width or, after the last width, to the end of the sweep; a notice
\* is printed by no other step; the notices are for different widths; at
\* the end of the sweep every width has been recorded or skipped.
C4_SoftSkip ==
    /\ [][ScanExhausted =>
            /\ neff_list' = neff_list
            /\ aeff_list' = aeff_list
            /\ console' = Append(console, [kind |-> "notice", val |-> width])
            /\ \/ i < Len(w_list) /\ i' = i + 1 /\ pc' = "geometry"
               \/ i = Len(w_list) /\ i' = i /\ pc' = "load"]_vars
    /\ [][(console' # console /\ IsNotice(console'[Len(console')]))
            => ScanExhausted /\ FirstTM(modes) = 0]_vars
    /\ [](LET ns == Notices
          IN  \A b \in 1..Len(ns) :
                  /\ \E j \in 1..Completed : ns[b] = ScaleWidth(w_list[j])
                  /\ b > 1 => ns[b - 1][1] < ns[b][1])
    /\ [](pc = "load" =>
            /\ i = Len(w_list)
            /\ Len(neff_list) + Len(Notices) = Len(w_list))

\* the sweep is over: the first width was skipped and later ones recorded
C4_Witness ==
    /\ pc = "load"
    /\ Len(Notices) > 0
    /\ Notices[1] = ScaleWidth(w_list[1])
    /\ Len(neff_list) > 0

\* C5: after the sweep the entry at each position of the result lists is a
\* value recorded for the width at the same position of w_list.
C5_Positional ==
    AfterSweep =>
        \A e \in 1..Len(neff_list) :
            /\ e <= Len(aeff_list)
            /\ neff_list[e] \in {m.n_eff[1] : m \in ModesFor(w_list[e])}
            /\ aeff_list[e] \in UNION {Areas(m) : m \in ModesFor(w_list[e])}

\* C6: the script never ends in an error: whenever the plotting step is
\* reached the sequences handed to each plot call have equal lengths.
C6_PlotCompletes ==
    /\ pc # "error"
    /\ pc = "plot" =>
           /\ Len(w_list) = Len(aeff_list)
           /\ Len(w_list) = Len(neff_list)

\* C7: the steps of an iteration run in the order geometry, mesh,
\* permittivity, solve, filter; the next width is taken only by the step
\* that ends the filter, so the widths are taken in the order of w_list,
\* each once; every step works on values derived from the current width;
\* w_list never changes and the result lists change only in the filter.
C7_Sequential ==
    /\ [](InSweep => i \in 1..Len(w_list))
    /\ [](AfterSweep => i = Len(w_list))
    /\ [](pc \in {"mesh", "eps", "solve", "filter"} =>
            /\ width = ScaleWidth(w_list[i])
            /\ polygons = Polygons(width))
    /\ [](pc \in {"eps", "solve", "filter"} => mesh = MeshOf(polygons))
    /\ [](pc \in {"solve", "filter"} => epsilon = EpsilonOf(mesh))
    /\ [](pc = "filter" =>
            \A j \in 1..Len(modes) : modes[j] \in ModesFor(w_list[i]))
    /\ [][/\ w_list' = w_list
          /\ pc = "geometry" => pc' = "mesh" /\ i' = i
          /\ pc = "mesh" => pc' = "eps" /\ i' = i
          /\ pc = "eps" => pc' = "solve" /\ i' = i
          /\ pc = "solve" => pc' = "filter" /\ i' = i
          /\ pc = "filter" =>
                \/ pc' = "filter" /\ i' = i /\ k' = k + 1
                \/ pc' = "geometry" /\ i' = i + 1
                \/ pc' = "load" /\ i' = i /\ i = Len(w_list)
          /\ pc # "filter" => neff_list' = neff_list /\ aeff_list' = aeff_list
         ]_vars

\* the filter of the last width runs, after a skipped and a recorded width
C7_Witness ==
    /\ pc = "filter"
    /\ i = Len(w_list)
    /\ Len(neff_list) > 0
    /\ Len(Notices) > 0

\* C8: the widths visited by the sweep are the multiples of 10 nm from 50 nm
\* up to and including 700 nm, each scaled to micrometres: the sweep ends
\* on 700 nm.
C8_SweepRange ==
    pc = "load" =>
        /\ {w_list[j] : j \in 1..Len(w_list)} = {y \in 50..700 : y % 10 = 0}
        /\ width = ScaleWidth(700)

\* C10: what is printed for an accepted mode is what is recorded for it: the
\* area printed is the formatted area recorded, the index printed has the
\* formatted index recorded as its real part.
C10_PrintedIsRecorded ==
    /\ Len(PrintedAeff) = Len(aeff_list)
    /\ Len(PrintedNeff) = Len(neff_list)
    /\ \A e \in 1..Len(aeff_list) : PrintedAeff[e] = Fmt4(aeff_list[e])
    /\ \A e \in 1..Len(neff_list) : PrintedNeff[e][1] = Fmt4(neff_list[e])

====
